---------------------------- MODULE Spec2Model ----------------------------
(***************************************************************************)
(* A model of pygit/repository.py: the command-execution layer             *)
(* (Repository._executeGitCommand and its success-asserting wrappers), the *)
(* LocalRepository / RemoteRepository operations built on it, and the two  *)
(* output parsers (RemoteRepository.getRefs and                            *)
(* LocalRepository._deduceNewCommitFromCommitOutput).                      *)
(*                                                                         *)
(* Text is modelled as a sequence of one-character strings, so that        *)
(* formatting ("%s" % x), concatenation, prefix tests, word splitting and  *)
(* the regular expression act on characters as they do in the program.     *)
(***************************************************************************)
EXTENDS Integers, Sequences, FiniteSets, TLC

VARIABLES
    path,       \* LocalRepository.path (fixed at construction)
    fs,         \* what the file system holds at path: "absent", "file", "dir"
    branches,   \* the git repository's branches: branch name -> commit
    head,       \* the checked-out branch
    pc,         \* the calling thread: "idle", "wait" (blocked in Popen.wait), "returned"
    call,       \* the operation the caller last entered: [id, op, name, start, fsAtCall]
    gen,        \* the generator object a generator method handed out: [st, id, op, cmd, inputs, fixed]
    proc,       \* the Popen child: [st, issuer, op, cmd, cwd, inputs, fixed, po, pe, rc]
    nspawned,   \* commands spawned since the operation in `call` was entered
    returned,   \* ids of the calls that have handed control back to their caller
    result,     \* how the last call ended: [outcome, raised, returncode, read, value]
    ncalls,     \* number of calls made so far
    refsText,   \* parser input: output of git ls-remote
    refsOut,    \* parser output: the values getRefs yields
    branchesOut,\* parser output: what RemoteRepository.getBranches returns
    commitText, \* parser input: output of git commit
    commitOut,  \* parser output: result of _deduceNewCommitFromCommitOutput
    phase       \* parser specifications: "input" before the parser ran, "parsed" after

vars == <<path, fs, branches, head, pc, call, gen, proc, nspawned, returned,
          result, ncalls, refsText, refsOut, branchesOut, commitText, commitOut, phase>>

mainVars == <<path, fs, branches, head, pc, call, gen, proc, nspawned, returned,
              result, ncalls>>
refsVars == <<refsText, refsOut, branchesOut>>
commitVars == <<commitText, commitOut>>

-----------------------------------------------------------------------------
(* Bounds of the model *)

MaxOps == 2        \* calls a behaviour makes
PipeCap == 1       \* what a pipe holds before a write to it blocks
MaxLines == 2      \* lines of ls-remote output
MaxPieces == 6     \* pieces the commit output is put together from

-----------------------------------------------------------------------------
(* Text *)

SP == " "
NL == "\n"
QT == "'"
IsSpace(c) == c \in {SP, NL, "\t"}

None == <<>>                 \* an optional argument left out (Python's None)
Some(x) == <<x>>

RECURSIVE Join(_, _)
\* sep.join(words)
Join(words, sep) ==
    IF words = <<>> THEN <<>>
    ELSE IF Len(words) = 1 THEN words[1]
    ELSE words[1] \o sep \o Join(Tail(words), sep)

StartsWith(s, p) == Len(p) <= Len(s) /\ SubSeq(s, 1, Len(p)) = p
Drop(s, n) == SubSeq(s, n + 1, Len(s))

S_a == <<"a">>
S_b == <<"b">>
S_a_b == <<"a", " ", "b">>
S_dot == <<".">>
S_repo == <<"/", "r">>
S_m == <<"m">>
S_git == <<"g", "i", "t">>
S_init == <<"i", "n", "i", "t">>
S_bare == <<"-", "-", "b", "a", "r", "e">>
S_clone == <<"c", "l", "o", "n", "e">>
S_branch == <<"b", "r", "a", "n", "c", "h">>
S_log == <<"l", "o", "g">>
S_m1 == <<"-", "1">>
S_revparse == <<"r", "e", "v", "-", "p", "a", "r", "s", "e">>
S_HEAD == <<"H", "E", "A", "D">>
S_lsfiles == <<"l", "s", "-", "f", "i", "l", "e", "s">>
S_exclude == <<"-", "-", "e", "x", "c", "l", "u", "d", "e", "-", "s", "t", "a", "n", "d", "a", "r", "d">>
S_cached == <<"-", "-", "c", "a", "c", "h", "e", "d">>
S_modified == <<"-", "-", "m", "o", "d", "i", "f", "i", "e", "d">>
S_others == <<"-", "-", "o", "t", "h", "e", "r", "s">>
S_add == <<"a", "d", "d">>
S_commit == <<"c", "o", "m", "m", "i", "t">>
S_mm == <<"-", "m">>
S_checkout == <<"c", "h", "e", "c", "k", "o", "u", "t">>
S_mb == <<"-", "b">>
S_dd == <<"-", "-">>
S_merge == <<"m", "e", "r", "g", "e">>
S_reset == <<"r", "e", "s", "e", "t">>
S_soft == <<"s", "o", "f", "t">>
S_hard == <<"h", "a", "r", "d">>
S_mixed == <<"m", "i", "x", "e", "d">>
S_remote == <<"r", "e", "m", "o", "t", "e">>
S_fetch == <<"f", "e", "t", "c", "h">>
S_pull == <<"p", "u", "l", "l">>
S_lsremote == <<"l", "s", "-", "r", "e", "m", "o", "t", "e">>

\* The strings callers pass: two plain words and one holding a space.
Names == {S_a, S_b, S_a_b}
OptNames == {None} \cup {Some(n) : n \in Names}
Paths == {S_dot, S_repo}
FileLists == {<<>>, <<S_a_b>>, <<S_a, S_b>>}


-----------------------------------------------------------------------------
(* The shell: Popen(command, shell=True) hands the command line to /bin/sh, *)
(* which splits it into words at unquoted blanks; text between single       *)
(* quotes stays in one word, the quotes removed.                            *)

RECURSIVE ShWords(_, _, _, _, _, _)
ShWords(s, i, cur, open, inq, acc) ==
    IF i > Len(s) THEN (IF open THEN Append(acc, cur) ELSE acc)
    ELSE IF inq THEN
        IF s[i] = QT THEN ShWords(s, i + 1, cur, TRUE, FALSE, acc)
        ELSE ShWords(s, i + 1, Append(cur, s[i]), TRUE, TRUE, acc)
    ELSE IF s[i] = QT THEN ShWords(s, i + 1, cur, TRUE, TRUE, acc)
    ELSE IF IsSpace(s[i]) THEN
        ShWords(s, i + 1, <<>>, FALSE, FALSE, IF open THEN Append(acc, cur) ELSE acc)
    ELSE ShWords(s, i + 1, Append(cur, s[i]), TRUE, FALSE, acc)

\* The argument vector the shell runs for a command line.
ShellSplit(s) == ShWords(s, 1, <<>>, FALSE, FALSE, <<>>)

\* utils.quote_for_shell: one shell token the shell reads back as s.  The
\* strings of this model hold no quote character, so wrapping in single
\* quotes is that token.
quote_for_shell(s) == <<QT>> \o s \o <<QT>>

\* "w1 w2 ... wn": the words of a format string with its %s filled in.
Words(ws) == Join(ws, <<SP>>)

-----------------------------------------------------------------------------
(* Command lines, as each operation formats them *)

CmdInit(bare) == Words(<<S_git, S_init, IF bare THEN S_bare ELSE <<>>>>)
CmdClone(url, p) == Words(<<S_git, S_clone, url, p>>)
CmdBranchList == Words(<<S_git, S_branch>>)
CmdLog(commit) == Words(<<S_git, S_log, S_m1, commit>>)
CmdRevParse(name) == Words(<<S_git, S_revparse, name>>)
CmdLsFiles(flags) == Words(<<S_git, S_lsfiles, Join(<<S_exclude>> \o flags, <<SP>>)>>)
CmdAdd(p) == Words(<<S_git, S_add, quote_for_shell(p)>>)
CmdCommit(message) == Words(<<S_git, S_commit, S_mm, quote_for_shell(message)>>)

CmdCreateBranch(name, startingPoint) ==
    Words(<<S_git, S_branch, name>>)
        \o (IF startingPoint # None THEN startingPoint[1] ELSE <<>>)

CmdCheckout(thing, targetBranch, files) ==
    Words(<<S_git, S_checkout, IF thing = None THEN <<>> ELSE thing[1]>>)
        \o (IF targetBranch # None THEN <<SP>> \o S_mb \o <<SP>> \o targetBranch[1] ELSE <<>>)
        \o (IF files # <<>> THEN <<SP>> \o S_dd \o <<SP>> \o Join(files, <<SP>>) ELSE <<>>)

CmdMerge(what) == Words(<<S_git, S_merge, what>>)
CmdReset(flag, thing) == Words(<<S_git, S_reset, S_dd \o flag, thing>>)
CmdAddRemote(name, url) == Words(<<S_git, S_remote, S_add, name, url>>)
CmdFetch(repo) == Words(<<S_git, S_fetch>>) \o (IF repo # None THEN <<SP>> \o repo[1] ELSE <<>>)
CmdPull(repo) == Words(<<S_git, S_pull>>) \o (IF repo # None THEN <<SP>> \o repo[1] ELSE <<>>)
CmdLsRemote(url) == Words(<<S_git, S_lsremote, url>>)

-----------------------------------------------------------------------------
(* Working directories *)

\* Repository._getWorkingDirectory
RepositoryGetWorkingDirectory == S_dot
\* (mutation: LocalRepository without its _getWorkingDirectory override)
LocalGetWorkingDirectoryInherited == RepositoryGetWorkingDirectory
\* LocalRepository._getWorkingDirectory
LocalGetWorkingDirectory == path

LocalOps == {"init", "clone", "getBranches", "containsCommit", "getHead", "getFiles",
             "add", "commit", "createBranch", "checkout", "merge", "reset",
             "addRemote", "fetch", "pull"}
RemoteOps == {"remoteGetRefs", "remoteGetBranches"}

\* The cwd _executeGitCommand runs an operation's command in: the cwd keyword
\* when the operation passes one (clone passes "."), else the repository's
\* working directory.
CwdOf(op) ==
    IF op = "clone" THEN S_dot
    ELSE IF op \in LocalOps THEN LocalGetWorkingDirectory
    ELSE RepositoryGetWorkingDirectory

\* Popen(cwd=...) starts a child only in an existing directory (it raises
\* OSError otherwise); "." exists.
CwdUsable(cwd, f) == cwd = S_dot \/ (cwd = path /\ f = "dir")

-----------------------------------------------------------------------------
(* How an operation ends *)

\* (mutation: RemoteRepository.getBranches handing out a generator as well)
IsGeneratorAlsoRemoteBranches(op) ==
    op \in {"getBranches", "remoteGetRefs", "remoteGetBranches"}
\* The methods written with yield: calling one runs none of its body.
IsGenerator(op) == op \in {"getBranches", "remoteGetRefs"}

\* (mutation: only a positive exit status raises)
AssertRaisesPositive(returncode) == returncode > 0
\* _executeGitCommandAssertSuccess: raise unless the exit status is 0.
AssertRaises(returncode) == returncode # 0

\* The operations that go through _getOutputAssertSuccess.
UsesOutput(op) == op \in {"getHead", "getFiles", "commit"}

\* (mutation: no operation catches the command-failed error)
OutcomeOfUncaught(op, raised) ==
    IF raised THEN "GitCommandFailedException" ELSE "ok"
\* What reaches the caller when the command of op has exited and
\* _executeGitCommandAssertSuccess did (raised) or did not raise.
OutcomeOf(op, raised) ==
    IF ~raised THEN "ok"
    ELSE IF op = "merge" THEN "NotImplementedError"
    ELSE IF op = "containsCommit" THEN "ok"
    ELSE "GitCommandFailedException"

\* The value returned on a normal return: <<kind, text>>.
ValueOf(op, raised, name) ==
    IF op = "containsCommit" THEN (IF raised THEN <<"False", <<>>>> ELSE <<"True", <<>>>>)
    ELSE IF raised THEN <<"raise", <<>>>>
    ELSE IF op = "createBranch" THEN <<"Branch", name>>
    ELSE IF op \in {"getHead", "commit"} THEN <<"Commit", <<>>>>
    ELSE IF op \in {"getFiles", "remoteGetBranches"} THEN <<"list", <<>>>>
    ELSE IF op = "addRemote" THEN <<"Remote", name>>
    ELSE IF IsGenerator(op) THEN <<"exhausted", <<>>>>
    ELSE <<"None", <<>>>>

-----------------------------------------------------------------------------
(* git, as far as the model follows it: the directory at path and the      *)
(* branches.  A command may always fail (status 128, or -9 when killed by  *)
(* a signal) and then changes nothing.                                     *)

FailStatuses == {128, -9}

World(f, b, h) == [fs |-> f, branches |-> b, head |-> h]
Ran(rc, f, b, h) == [rc |-> rc, fs |-> f, branches |-> b, head |-> h]

GitSuccess(argv, f, b, h) ==
    IF Len(argv) < 2 \/ argv[1] # S_git THEN {}
    ELSE IF argv[2] = S_clone THEN
        \* git clone <url> <dir>: creates <dir>
        IF Len(argv) = 4 /\ argv[4] = path /\ f \in {"absent", "dir"}
        THEN {World("dir", b, h)} ELSE {}
    ELSE IF argv[2] = S_branch THEN
        \* git branch | git branch <name> | git branch <name> <start-point>
        IF Len(argv) = 2 THEN {World(f, b, h)}
        ELSE IF Len(argv) = 3 /\ argv[3] \notin DOMAIN b
            THEN {World(f, (argv[3] :> b[h]) @@ b, h)}
        ELSE IF Len(argv) = 4 /\ argv[3] \notin DOMAIN b /\ argv[4] \in DOMAIN b
            THEN {World(f, (argv[3] :> b[argv[4]]) @@ b, h)}
        ELSE {}
    ELSE IF argv[2] = S_checkout THEN
        \* git checkout | checkout <branch> | checkout [<start>] -b <new> | checkout ... -- files
        IF Len(argv) = 2 THEN {World(f, b, h)}
        ELSE IF \E i \in 3..Len(argv) : argv[i] = S_dd THEN {World(f, b, h)}
        ELSE IF Len(argv) = 3 THEN
            (IF argv[3] \in DOMAIN b THEN {World(f, b, argv[3])} ELSE {})
        ELSE IF Len(argv) = 4 /\ argv[3] = S_mb /\ argv[4] \notin DOMAIN b
            THEN {World(f, (argv[4] :> b[h]) @@ b, argv[4])}
        ELSE IF Len(argv) = 5 /\ argv[4] = S_mb /\ argv[3] \in DOMAIN b
                /\ argv[5] \notin DOMAIN b
            THEN {World(f, (argv[5] :> b[argv[3]]) @@ b, argv[5])}
        ELSE {}
    ELSE {World(f, b, h)}

GitOutcomes(argv, f, b, h) ==
    {Ran(0, w.fs, w.branches, w.head) : w \in GitSuccess(argv, f, b, h)}
        \cup {Ran(rc, f, b, h) : rc \in FailStatuses}


-----------------------------------------------------------------------------
(* The state after construction *)

NoProc == [st |-> "none", issuer |-> 0, op |-> "none", cmd |-> <<>>, cwd |-> S_dot,
           inputs |-> <<>>, fixed |-> 0, po |-> 0, pe |-> 0, rc |-> 0]
NoGen == [st |-> "none", id |-> 0, op |-> "none", cmd |-> <<>>, inputs |-> <<>>, fixed |-> 0]
NoCall == [id |-> 0, op |-> "none", name |-> None, start |-> None, fsAtCall |-> "dir"]
Result(outcome, raised, returncode, read, value) ==
    [outcome |-> outcome, raised |-> raised, returncode |-> returncode,
     read |-> read, value |-> value]
NoResult == Result("none", FALSE, 0, -1, <<"None", <<>>>>)

ParsersOff ==
    /\ refsText = <<>> /\ refsOut = <<>> /\ branchesOut = <<>>
    /\ commitText = <<>> /\ commitOut = None
    /\ phase = "off"

MainOff ==
    /\ path = S_dot /\ fs = "dir"
    /\ branches = (S_m :> 1) /\ head = S_m
    /\ pc = "idle" /\ call = NoCall /\ gen = NoGen /\ proc = NoProc
    /\ nspawned = 0 /\ returned = {} /\ result = NoResult /\ ncalls = 0

\* A LocalRepository(path) over a path that is absent, a file or a directory
\* (the current directory exists); the repository there, once it exists, has
\* the checked-out branch m at commit 1 and a branch b at commit 2.
Init ==
    /\ path \in Paths
    /\ fs \in {"absent", "file", "dir"}
    /\ path = S_dot => fs = "dir"
    /\ branches = (S_m :> 1) @@ (S_b :> 2)
    /\ head = S_m
    /\ pc = "idle" /\ call = NoCall /\ gen = NoGen /\ proc = NoProc
    /\ nspawned = 0 /\ returned = {} /\ result = NoResult /\ ncalls = 0
    /\ ParsersOff

-----------------------------------------------------------------------------
(* Repository._executeGitCommand, up to the point where it blocks in wait() *)

\* Popen(command, shell=True, cwd=cwd, stdout=PIPE, stderr=PIPE) on behalf of
\* call id, the file system at path being f.
Spawn(id, op, cmd, cwd, inputs, fixed, f) ==
    IF CwdUsable(cwd, f)
    THEN /\ proc' = [st |-> "running", issuer |-> id, op |-> op, cmd |-> cmd,
                      cwd |-> cwd, inputs |-> inputs, fixed |-> fixed,
                      po |-> 0, pe |-> 0, rc |-> 0]
         /\ pc' = "wait"
         /\ nspawned' = 1
         /\ result' = NoResult
         /\ returned' = returned
    ELSE /\ proc' = proc
         /\ pc' = "returned"
         /\ nspawned' = 0
         /\ result' = Result("OSError", FALSE, 0, -1, <<"raise", <<>>>>)
         /\ returned' = returned \cup {id}

\* Entering operation op, whose body formats cmd and runs it.  inputs are the
\* caller's strings the command line embeds, fixed the number of words the
\* operation itself puts there.
Start(op, cmd, inputs, fixed, name, start) ==
    /\ pc = "idle"
    /\ ncalls < MaxOps
    /\ ncalls' = ncalls + 1
    /\ call' = [id |-> ncalls + 1, op |-> op, name |-> name, start |-> start,
                fsAtCall |-> fs]
    /\ IF IsGenerator(op)
       THEN /\ gen' = [st |-> "suspended", id |-> ncalls + 1, op |-> op, cmd |-> cmd,
                       inputs |-> inputs, fixed |-> fixed]
            /\ pc' = "returned"
            /\ returned' = returned \cup {ncalls + 1}
            /\ result' = Result("ok", FALSE, 0, -1, <<"generator", <<>>>>)
            /\ nspawned' = 0
            /\ proc' = proc
       ELSE /\ Spawn(ncalls + 1, op, cmd, CwdOf(op), inputs, fixed, fs)
            /\ gen' = gen
    /\ UNCHANGED <<path, fs, branches, head>>
    /\ UNCHANGED <<refsVars, commitVars, phase>>

\* The caller advances the generator for the first time: its body runs now.
GenNext ==
    /\ pc = "idle"
    /\ gen.st = "suspended"
    /\ call' = [id |-> gen.id, op |-> gen.op, name |-> None, start |-> None,
                fsAtCall |-> fs]
    /\ Spawn(gen.id, gen.op, gen.cmd, CwdOf(gen.op), gen.inputs, gen.fixed, fs)
    /\ gen' = [gen EXCEPT !.st = IF CwdUsable(CwdOf(gen.op), fs) THEN "running" ELSE "done"]
    /\ UNCHANGED <<path, fs, branches, head, ncalls>>
    /\ UNCHANGED <<refsVars, commitVars, phase>>

-----------------------------------------------------------------------------
(* The child process *)

\* The child writes a unit of output to stdout; the pipe has room for it.
ChildWriteOut ==
    /\ proc.st = "running"
    /\ proc.po < PipeCap
    /\ proc' = [proc EXCEPT !.po = @ + 1]
    /\ UNCHANGED <<path, fs, branches, head, pc, call, gen, nspawned, returned,
                   result, ncalls>>
    /\ UNCHANGED <<refsVars, commitVars, phase>>

ChildWriteErr ==
    /\ proc.st = "running"
    /\ proc.pe < PipeCap
    /\ proc' = [proc EXCEPT !.pe = @ + 1]
    /\ UNCHANGED <<path, fs, branches, head, pc, call, gen, nspawned, returned,
                   result, ncalls>>
    /\ UNCHANGED <<refsVars, commitVars, phase>>

\* The child writes to a pipe that is full: write() blocks until the pipe is
\* read, and the parent, in wait(), reads neither pipe.
ChildBlock ==
    /\ proc.st = "running"
    /\ proc.po = PipeCap \/ proc.pe = PipeCap
    /\ proc' = [proc EXCEPT !.st = "blocked"]
    /\ UNCHANGED <<path, fs, branches, head, pc, call, gen, nspawned, returned,
                   result, ncalls>>
    /\ UNCHANGED <<refsVars, commitVars, phase>>

\* The child has written all it had and exits; what git did is done.
ChildExit ==
    /\ proc.st = "running"
    /\ \E r \in GitOutcomes(ShellSplit(proc.cmd), fs, branches, head) :
          /\ proc' = [proc EXCEPT !.st = "exited", !.rc = r.rc]
          /\ fs' = r.fs
          /\ branches' = r.branches
          /\ head' = r.head
    /\ UNCHANGED <<path, pc, call, gen, nspawned, returned, result, ncalls>>
    /\ UNCHANGED <<refsVars, commitVars, phase>>

-----------------------------------------------------------------------------
(* wait() returns: the rest of _executeGitCommand, of                       *)
(* _executeGitCommandAssertSuccess / _getOutputAssertSuccess and of the     *)
(* operation that called them.                                              *)

WaitReturn ==
    /\ pc = "wait"
    /\ proc.st = "exited"
    /\ LET raised == AssertRaises(proc.rc) IN
          result' = Result(OutcomeOf(proc.op, raised), raised, proc.rc,
                           IF UsesOutput(proc.op) /\ ~raised THEN proc.po ELSE -1,
                           ValueOf(proc.op, raised,
                                   IF call.name = None THEN <<>> ELSE call.name[1]))
    /\ proc' = [proc EXCEPT !.st = "reaped"]
    /\ returned' = returned \cup {proc.issuer}
    /\ gen' = IF gen.st = "running" THEN [gen EXCEPT !.st = "done"] ELSE gen
    /\ pc' = "returned"
    /\ UNCHANGED <<path, fs, branches, head, call, nspawned, ncalls>>
    /\ UNCHANGED <<refsVars, commitVars, phase>>

\* The caller takes what the operation returned or raised and goes on.
Consume ==
    /\ pc = "returned"
    /\ pc' = "idle"
    /\ call' = NoCall
    /\ proc' = NoProc
    /\ result' = NoResult
    /\ nspawned' = 0
    /\ UNCHANGED <<path, fs, branches, head, gen, returned, ncalls>>
    /\ UNCHANGED <<refsVars, commitVars, phase>>

-----------------------------------------------------------------------------
(* LocalRepository *)

\* (mutation: init tests for existence where it should test for a directory)
InitRefusesMissing(f) == f = "absent"
\* init: what is at path after the mkdir step is refused unless it is a directory
InitRefuses(f) == f # "dir"

\* init(bare): mkdir when nothing is at path (mkdir itself may fail), refuse
\* what is not a directory, else run git init.
LocalInit ==
    /\ pc = "idle"
    /\ ncalls < MaxOps
    /\ \E bare \in BOOLEAN, mkdirOk \in BOOLEAN :
          /\ ncalls' = ncalls + 1
          /\ call' = [id |-> ncalls + 1, op |-> "init", name |-> None, start |-> None,
                      fsAtCall |-> fs]
          /\ IF fs = "absent" /\ ~mkdirOk
             THEN /\ fs' = fs
                  /\ pc' = "returned"
                  /\ result' = Result("OSError", FALSE, 0, -1, <<"raise", <<>>>>)
                  /\ returned' = returned \cup {ncalls + 1}
                  /\ nspawned' = 0
                  /\ proc' = proc
             ELSE /\ fs' = IF fs = "absent" THEN "dir" ELSE fs
                  /\ IF InitRefuses(fs')
                     THEN /\ pc' = "returned"
                          /\ result' = Result("GitException", FALSE, 0, -1, <<"raise", <<>>>>)
                          /\ returned' = returned \cup {ncalls + 1}
                          /\ nspawned' = 0
                          /\ proc' = proc
                     ELSE Spawn(ncalls + 1, "init", CmdInit(bare), CwdOf("init"), <<>>,
                                IF bare THEN 3 ELSE 2, fs')
    /\ UNCHANGED <<path, branches, head, gen>>
    /\ UNCHANGED <<refsVars, commitVars, phase>>

LocalClone == \E url \in Names : Start("clone", CmdClone(url, path), <<url, path>>, 2, None, None)

LocalGetBranches == Start("getBranches", CmdBranchList, <<>>, 2, None, None)

ContainsCommit ==
    \E commit \in Names : Start("containsCommit", CmdLog(commit), <<commit>>, 3, None, None)

GetHead == Start("getHead", CmdRevParse(S_HEAD), <<>>, 3, None, None)

\* getStagedFiles, getUnchangedFiles, getChangedFiles, getUntrackedFiles
GetFiles ==
    \E flags \in {<<S_cached>>, <<>>, <<S_modified>>, <<S_others>>} :
        Start("getFiles", CmdLsFiles(flags), <<>>, 3 + Len(flags), None, None)

Add == \E p \in Names : Start("add", CmdAdd(p), <<p>>, 2, None, None)

Commit == \E message \in Names : Start("commit", CmdCommit(message), <<message>>, 3, None, None)

CreateBranch ==
    \E name \in Names, startingPoint \in OptNames :
        Start("createBranch", CmdCreateBranch(name, startingPoint),
              <<name>> \o startingPoint, 2, Some(name), startingPoint)

Checkout ==
    \E thing \in OptNames, targetBranch \in OptNames, files \in FileLists :
        Start("checkout", CmdCheckout(thing, targetBranch, files),
              thing \o targetBranch \o files,
              2 + (IF targetBranch # None THEN 1 ELSE 0) + (IF files # <<>> THEN 1 ELSE 0),
              None, None)

Merge == \E what \in Names : Start("merge", CmdMerge(what), <<what>>, 2, None, None)

\* resetSoft, resetHard, resetMixed
Reset ==
    \E flag \in {S_soft, S_hard, S_mixed}, thing \in Names :
        Start("reset", CmdReset(flag, thing), <<thing>>, 3, None, None)

AddRemote ==
    \E name \in Names, url \in Names :
        Start("addRemote", CmdAddRemote(name, url), <<name, url>>, 3, Some(name), None)

Fetch == \E repo \in OptNames : Start("fetch", CmdFetch(repo), repo, 2, None, None)

Pull == \E repo \in OptNames : Start("pull", CmdPull(repo), repo, 2, None, None)

-----------------------------------------------------------------------------
(* RemoteRepository *)

RemoteGetRefs ==
    \E url \in Names : Start("remoteGetRefs", CmdLsRemote(url), <<url>>, 2, None, None)

\* getBranches builds a list from getRefs(), which runs the generator to its
\* end inside the call.
RemoteGetBranches ==
    \E url \in Names : Start("remoteGetBranches", CmdLsRemote(url), <<url>>, 2, None, None)

-----------------------------------------------------------------------------

Next ==
    \/ LocalInit \/ LocalClone \/ LocalGetBranches \/ ContainsCommit \/ GetHead
    \/ GetFiles \/ Add \/ Commit \/ CreateBranch \/ Checkout \/ Merge \/ Reset
    \/ AddRemote \/ Fetch \/ Pull \/ RemoteGetRefs \/ RemoteGetBranches
    \/ GenNext \/ ChildWriteOut \/ ChildWriteErr \/ ChildBlock \/ ChildExit
    \/ WaitReturn \/ Consume

Spec == Init /\ [][Next]_vars

\* The operating system runs a child that can take a step, and wait()
\* returns once the child has exited.
ChildStep == ChildWriteOut \/ ChildWriteErr \/ ChildBlock \/ ChildExit
FairSpec == Spec /\ WF_vars(ChildStep) /\ WF_vars(WaitReturn)


-----------------------------------------------------------------------------
(* RemoteRepository.getRefs as a function of the ls-remote output *)

S_refs_heads == <<"r", "e", "f", "s", "/", "h", "e", "a", "d", "s", "/">>
S_refs_tags == <<"r", "e", "f", "s", "/", "t", "a", "g", "s", "/">>
S_refs_remotes == <<"r", "e", "f", "s", "/", "r", "e", "m", "o", "t", "e", "s", "/">>
S_refs == <<"r", "e", "f", "s", "/">>
S_hash == <<"1", "f">>

RECURSIVE PyWords(_, _, _, _)
PyWords(s, i, cur, acc) ==
    IF i > Len(s) THEN (IF cur # <<>> THEN Append(acc, cur) ELSE acc)
    ELSE IF IsSpace(s[i]) THEN PyWords(s, i + 1, <<>>, IF cur # <<>> THEN Append(acc, cur) ELSE acc)
    ELSE PyWords(s, i + 1, Append(cur, s[i]), acc)

\* str.split(): the words between runs of whitespace
PySplit(s) == PyWords(s, 1, <<>>, <<>>)

\* (mutation: the catch-all row first)
PrefixTableFallbackFirst ==
    << [prefix |-> <<>>, cls |-> "Ref"],
       [prefix |-> S_refs_heads, cls |-> "Branch"],
       [prefix |-> S_refs_tags, cls |-> "None"],
       [prefix |-> S_refs_remotes, cls |-> "None"] >>
\* The ordered (prefix, class) table of getRefs; class "None" yields nothing.
PrefixTable ==
    << [prefix |-> S_refs_heads, cls |-> "Branch"],
       [prefix |-> S_refs_tags, cls |-> "None"],
       [prefix |-> S_refs_remotes, cls |-> "None"],
       [prefix |-> <<>>, cls |-> "Ref"] >>

RECURSIVE FirstMatch(_, _)
\* the inner for loop: the first table row whose prefix refname starts with
FirstMatch(refname, k) ==
    IF StartsWith(refname, PrefixTable[k].prefix) THEN k ELSE FirstMatch(refname, k + 1)

\* What one output line makes getRefs yield: nothing, or one value.
LineYield(line) ==
    LET refname == PySplit(line)[2]
        row == PrefixTable[FirstMatch(refname, 1)]
    IN  IF row.cls # "None"
        THEN << [cls |-> row.cls, name |-> Drop(refname, Len(row.prefix))] >>
        ELSE <<>>

RECURSIVE GetRefs(_)
GetRefs(lines) ==
    IF lines = <<>> THEN <<>> ELSE LineYield(Head(lines)) \o GetRefs(Tail(lines))

IsBranch(v) == v.cls = "Branch"
\* RemoteRepository.getBranches: the Branch instances among getRefs()
RemoteBranchList(lines) == SelectSeq(GetRefs(lines), IsBranch)

\* Lines "<hash> <refname>\n" of an ls-remote output.
RefNames ==
    { S_refs_heads \o S_a, S_refs_heads \o S_b, S_refs_heads,
      S_refs_heads \o S_refs_tags \o S_a,
      S_refs_tags \o S_a, S_refs_tags \o S_refs_heads \o S_a,
      S_refs_remotes \o S_a, S_refs \o S_a, S_HEAD,
      <<"r", "e", "f", "s", "/", "h", "e", "a", "d", "s">>,
      <<"x">> \o S_refs_heads \o S_a }
RefLine(refname) == S_hash \o <<SP>> \o refname \o <<NL>>
RefLines == {RefLine(r) : r \in RefNames}

InitRefs ==
    /\ MainOff
    /\ refsText \in UNION {[1..n -> RefLines] : n \in 0..MaxLines}
    /\ refsOut = <<>> /\ branchesOut = <<>>
    /\ commitText = <<>> /\ commitOut = None
    /\ phase = "input"

ParseRefs ==
    /\ phase = "input"
    /\ refsOut' = GetRefs(refsText)
    /\ branchesOut' = RemoteBranchList(refsText)
    /\ phase' = "parsed"
    /\ UNCHANGED <<mainVars, refsText, commitVars>>

SpecRefs == InitRefs /\ [][ParseRefs]_vars

-----------------------------------------------------------------------------
(* LocalRepository._deduceNewCommitFromCommitOutput as a function of the   *)
(* commit output: re.search of                                             *)
(*     ^\[\S+\s+(?:\(root-commit\)\s+)?(\S+)\]                             *)

S_root == <<"(", "r", "o", "o", "t", "-", "c", "o", "m", "m", "i", "t", ")">>

\* t[a..b] is all whitespace (space = TRUE) or holds none (space = FALSE)
AllIn(t, a, b, space) == \A x \in a..b : IsSpace(t[x]) = space

\* (\S+)\] from position s: where the group may end
HashEnds(t, s) == {l \in s..(Len(t) - 1) : AllIn(t, s, l, FALSE) /\ t[l + 1] = "]"}

RootAt(t, s) == s + Len(S_root) - 1 <= Len(t) /\ SubSeq(t, s, s + Len(S_root) - 1) = S_root

\* Every way the pattern after ^ matches t from position p: \S+ ends at i,
\* the \s+ after it at j, the optional group is taken (root = 1) with its \s+
\* ending at k or is not (root = 0), and group 1 is t[from..to].
Matches(t, p) ==
    IF p > Len(t) \/ t[p] # "[" THEN {}
    ELSE UNION { UNION {
            (IF RootAt(t, j + 1)
             THEN UNION { { [i |-> i, j |-> j, root |-> 1, k |-> k, from |-> k + 1, to |-> l] :
                                l \in HashEnds(t, k + 1) } :
                          k \in {k \in (j + Len(S_root) + 1)..Len(t) :
                                    AllIn(t, j + Len(S_root) + 1, k, TRUE)} }
             ELSE {})
            \cup { [i |-> i, j |-> j, root |-> 0, k |-> j, from |-> j + 1, to |-> l] :
                        l \in HashEnds(t, j + 1) } :
            j \in {j \in (i + 1)..Len(t) : AllIn(t, i + 1, j, TRUE)} } :
         i \in {i \in (p + 1)..Len(t) : AllIn(t, p + 1, i, FALSE)} }

\* The order a backtracking matcher tries them in: every quantifier greedy.
Before(m, n) ==
    \/ m.i > n.i
    \/ m.i = n.i /\ m.j > n.j
    \/ m.i = n.i /\ m.j = n.j /\ m.root > n.root
    \/ m.i = n.i /\ m.j = n.j /\ m.root = n.root /\ m.k > n.k
    \/ m.i = n.i /\ m.j = n.j /\ m.root = n.root /\ m.k = n.k /\ m.to >= n.to

FirstOf(ms) == CHOOSE m \in ms : \A n \in ms : Before(m, n)

\* Where ^ matches: without re.MULTILINE, at the start of the text only.
Anchors(t) == {1}

\* re.search(pattern, output): the first anchor with a match, or no match
ReSearch(t) ==
    LET ps == {p \in Anchors(t) : Matches(t, p) # {}}
    IN  IF ps = {} THEN {}
        ELSE {FirstOf(Matches(t, CHOOSE p \in ps : \A q \in ps : p <= q))}

\* commit.Commit(self, match.group(1)), or None
DeduceNewCommit(output) ==
    IF ReSearch(output) = {} THEN None
    ELSE LET m == CHOOSE m \in ReSearch(output) : TRUE
         IN  Some(SubSeq(output, m.from, m.to))

\* Commit outputs: up to MaxPieces of these pieces, one after the other.
Pieces == {<<"[">>, <<"]">>, <<SP>>, <<NL>>, S_m, S_root}

RECURSIVE Flatten(_)
Flatten(ps) == IF ps = <<>> THEN <<>> ELSE Head(ps) \o Flatten(Tail(ps))

InitCommit ==
    /\ MainOff
    /\ refsText = <<>> /\ refsOut = <<>> /\ branchesOut = <<>>
    /\ commitText \in {Flatten(ps) : ps \in UNION {[1..n -> Pieces] : n \in 0..MaxPieces}}
    /\ commitOut = None
    /\ phase = "input"

ParseCommit ==
    /\ phase = "input"
    /\ commitOut' = DeduceNewCommit(commitText)
    /\ phase' = "parsed"
    /\ UNCHANGED <<mainVars, refsVars, commitText>>

SpecCommit == InitCommit /\ [][ParseCommit]_vars


-----------------------------------------------------------------------------
(* Properties *)

Live == proc.st \in {"running", "blocked", "exited"}
Reaped == pc = "returned" /\ proc.st = "reaped"

\* C1: _executeGitCommandAssertSuccess raises exactly when the exit status is
\* not 0, whatever was captured on stdout and stderr; with status 0 it hands
\* back the invocation with that status, and _getOutputAssertSuccess hands
\* back all the child wrote to stdout.
C1_RaisesIffNonZero ==
    Reaped =>
        /\ result.raised <=> (proc.rc # 0)
        /\ result.returncode = proc.rc
        /\ proc.rc = 0 /\ UsesOutput(proc.op) => result.read = proc.po
        /\ result.read # -1 => proc.rc = 0

C1_Witness ==
    /\ Reaped
    /\ proc.rc = 0 /\ ~result.raised
    /\ UsesOutput(proc.op) /\ result.read = PipeCap /\ proc.pe = PipeCap

\* C2 as stated: a non-zero exit status reaches the caller of every operation
\* as the command-failed error, after one command and no more; merge alone
\* converts it, to NotImplementedError.
C2_Original ==
    Reaped /\ proc.rc # 0 =>
        /\ nspawned = 1
        /\ result.outcome = IF proc.op = "merge" THEN "NotImplementedError"
                            ELSE "GitCommandFailedException"

\* C2 amended: as stated, but containsCommit converts the failure too, into
\* the normal return value False.
C2_FailurePropagates ==
    Reaped /\ proc.rc # 0 =>
        /\ nspawned = 1
        /\ proc.op = "merge" => result.outcome = "NotImplementedError"
        /\ proc.op = "containsCommit" =>
              result.outcome = "ok" /\ result.value = <<"False", <<>>>>
        /\ proc.op \notin {"merge", "containsCommit"} =>
              result.outcome = "GitCommandFailedException"

C2_Witness ==
    /\ Reaped
    /\ proc.rc # 0
    /\ proc.op = "containsCommit"
    /\ result.outcome = "ok" /\ result.value = <<"False", <<>>>>

\* C3: _executeGitCommand returns for every child that writes a finite amount
\* to stdout and stderr and then exits: a caller blocked in wait() gets to
\* return.
C3_RunnerReturns == (pc = "wait") ~> (pc = "returned")

\* C4 as stated: no command of an operation is running or waiting to be
\* reaped once that operation has returned, and the command in progress is
\* the latest call's.
C4_Original ==
    Live => proc.issuer \notin returned /\ proc.issuer = ncalls

\* C4 amended: that holds of every operation but LocalRepository.getBranches
\* and RemoteRepository.getRefs; and an operation other than these two that
\* returned after spawning a command returned with that command reaped.
\* The two return a generator at once; their command is issued when the
\* generator is first advanced, after the call returned.
C4_Synchronous ==
    /\ Live /\ proc.op \in {"getBranches", "remoteGetRefs"} =>
          proc.issuer \in returned /\ gen.st = "running" /\ gen.id = proc.issuer
    /\ Live /\ proc.op \notin {"getBranches", "remoteGetRefs"} =>
          proc.issuer \notin returned /\ proc.issuer = ncalls
    /\ pc = "returned" /\ call.op \notin {"getBranches", "remoteGetRefs"} /\ nspawned > 0 =>
          proc.st = "reaped" /\ proc.issuer = call.id /\ proc.op = call.op
    /\ pc = "returned" /\ call.op \notin {"getBranches", "remoteGetRefs"} =>
          call.id \in returned /\ gen.id # call.id

C4_Witness ==
    /\ pc = "returned"
    /\ call.op = "remoteGetBranches"
    /\ proc.st = "reaped" /\ proc.issuer = call.id
    /\ call.id \in returned

\* C5: getRefs turns the lines "<hash> <refname>", in order, into: one Branch
\* named by what follows refs/heads/; nothing for refs/tags/ and
\* refs/remotes/; one Ref with the whole refname otherwise.  getBranches
\* returns the values of the refs/heads/ lines.
C5_RefnameOf(line) == SubSeq(line, Len(S_hash) + 2, Len(line) - 1)
C5_IsHead(r) == StartsWith(r, S_refs_heads)
C5_ValueFor(r) ==
    IF C5_IsHead(r) THEN <<[cls |-> "Branch", name |-> Drop(r, Len(S_refs_heads))]>>
    ELSE IF StartsWith(r, S_refs_tags) \/ StartsWith(r, S_refs_remotes) THEN <<>>
    ELSE <<[cls |-> "Ref", name |-> r]>>
C5_Classification ==
    phase = "parsed" =>
        /\ refsOut = Flatten([i \in 1..Len(refsText) |-> C5_ValueFor(C5_RefnameOf(refsText[i]))])
        /\ branchesOut = Flatten([i \in 1..Len(refsText) |->
                                    IF C5_IsHead(C5_RefnameOf(refsText[i]))
                                    THEN C5_ValueFor(C5_RefnameOf(refsText[i])) ELSE <<>>])

C5_Witness ==
    /\ phase = "parsed"
    /\ refsText = <<RefLine(S_refs_tags \o S_a), RefLine(S_refs_heads \o S_a)>>
    /\ refsOut = <<[cls |-> "Branch", name |-> S_a]>>
    /\ branchesOut = refsOut

\* C6: _deduceNewCommitFromCommitOutput returns <hash> when some line of the
\* output, wherever it stands, has the shape "[<branch> <hash>]" or
\* "[<branch> (root-commit) <hash>]", and returns None exactly when no line
\* has it.
C6_LineStarts(t) == {p \in 1..Len(t) : p = 1 \/ t[p - 1] = NL}
C6_Expected(t) ==
    LET ps == {p \in C6_LineStarts(t) : Matches(t, p) # {}}
    IN  IF ps = {} THEN None
        ELSE LET m == FirstOf(Matches(t, CHOOSE p \in ps : \A q \in ps : p <= q))
             IN  Some(SubSeq(t, m.from, m.to))
C6_DeducesFromAnyLine ==
    phase = "parsed" => commitOut = C6_Expected(commitText)

\* C7 as stated: every command of a LocalRepository operation runs in the
\* repository's path.
C7_Original ==
    Live /\ proc.op \in LocalOps => proc.cwd = path

\* C7 amended: every command of a LocalRepository operation other than clone
\* runs in the repository's path; the command of clone runs in ".".
C7_WorkingDirectory ==
    /\ Live /\ proc.op \in LocalOps \ {"clone"} => proc.cwd = path
    /\ Live /\ proc.op = "clone" => proc.cwd = S_dot

C7_Witness ==
    /\ Live
    /\ proc.op = "createBranch"
    /\ path = S_repo /\ proc.cwd = S_repo

\* C8: init on a path holding something that is not a directory raises
\* GitException, spawns nothing and leaves the file system alone; on an
\* absent path it makes the directory before any command, so git init only
\* ever runs with a directory at path.
C8_Init ==
    /\ call.op = "init" /\ call.fsAtCall = "file" =>
          /\ pc = "returned" /\ result.outcome = "GitException"
          /\ nspawned = 0 /\ proc.st = "none"
          /\ fs = "file"
    /\ Live /\ proc.op = "init" => fs = "dir" /\ proc.cwd = path
    /\ call.op = "init" /\ call.fsAtCall = "absent" /\ nspawned > 0 => fs = "dir"

C8_Witness ==
    /\ proc.st = "running" /\ proc.op = "init"
    /\ call.fsAtCall = "absent"
    /\ fs = "dir"

\* C9: in every command line issued, each string the caller supplied is one
\* argument: the shell's argument vector holds the operation's own words and
\* one argument, equal to it, per caller string.
C9_EachInputOneArgument ==
    proc.st = "running" =>
        LET argv == ShellSplit(proc.cmd)
        IN  /\ Len(argv) = proc.fixed + Len(proc.inputs)
            /\ \A i \in 1..Len(proc.inputs) :
                  \E j \in 1..Len(argv) : argv[j] = proc.inputs[i]

\* C10: when createBranch(name, startingPoint) has returned normally, name
\* and startingPoint being single words, the Branch returned is named name,
\* the repository has a branch of that name, and with a startingPoint given
\* that branch is at the startingPoint's commit.
C10_Plain(s) == \A x \in 1..Len(s) : ~IsSpace(s[x])
C10_BranchExists ==
    /\ pc = "returned" /\ call.op = "createBranch" /\ result.outcome = "ok"
    /\ C10_Plain(call.name[1])
    /\ call.start # None => C10_Plain(call.start[1])
    =>  /\ result.value = <<"Branch", call.name[1]>>
        /\ call.name[1] \in DOMAIN branches
        /\ call.start # None =>
              /\ call.start[1] \in DOMAIN branches
              /\ branches[call.name[1]] = branches[call.start[1]]

=============================================================================
